---- MODULE Spec2Model ----
(***************************************************************************)
(* A model of the iss integration (homeassistant/components/iss):          *)
(*   - define_time_range, get_pass_details and update of __init__.py,      *)
(*   - the config-entry lifecycle (async_setup_entry, async_update,        *)
(*     async_unload_entry, update_listener) of __init__.py,                *)
(*   - the four IssSensor entities of sensor.py,                           *)
(*   - get_iss_position / load_satellites of iss_tracking.py.              *)
(* The astronomy library (ephemeris, event finder) and the crew/location   *)
(* HTTP client are collaborators: the event finder and the HTTP client are *)
(* inputs chosen by the environment, the ephemeris is an uninterpreted     *)
(* function (a term naming its arguments).                                 *)
(***************************************************************************)
EXTENDS Integers, Sequences, FiniteSets, TLC

VARIABLES
    \* define_time_range
    dtr_now,            \* the argument `now`
    dtr_out,            \* what the call returned (kind "none" before the call)
    \* get_pass_details
    gpd_in,             \* the zipped arguments (t, events): a sequence of <<ti, event>>
    gpd_out,            \* what the call did: it returned a list, or raised
    \* the config entry of the integration
    hass_data,          \* hass.data restricted to the key DOMAIN
    entry_state,        \* the host's state of the config entry
    coordinator,        \* the DataUpdateCoordinator: data and last_update_success
    entities,           \* the entities added by the sensor platform
    data_in,            \* the clock and the events coordinator.data was computed from
    update_out,         \* what the latest update() did
    async_out,          \* what the latest async_update() did
    setup_out,          \* what the latest async_setup_entry() did
    unload_out,         \* what the latest async_unload_entry() did
    last_op,            \* the latest operation on the entry, hass.data before it,
                        \* and what async_unload_platforms answered in it
    \* iss_tracking.get_iss_position
    remote_tle,         \* the element set STATIONS_URL serves now
    tle_file,           \* the downloaded copy on disk, if any
    pos_calls           \* the calls made so far, each with its outcome

time_vars == <<dtr_now, dtr_out>>
pass_vars == <<gpd_in, gpd_out>>
entry_vars == <<hass_data, entry_state, coordinator, entities, data_in, update_out,
                async_out, setup_out, unload_out, last_op>>
pos_vars == <<remote_tle, tle_file, pos_calls>>
vars == <<time_vars, pass_vars, entry_vars, pos_vars>>

(***************************************************************************)
(* Bounds of the model.                                                    *)
(***************************************************************************)
\* The years after 2023 that `now` is drawn from.
MaxYearSpan == 1
\* The longest event list the event finder returns.
MaxEvents == 5
\* The number of candidate instants in a search window.
MaxInstants == 5
\* The number of calls of get_iss_position a behaviour records.
MaxCalls == 3

(***************************************************************************)
(* The proleptic Gregorian calendar of datetime, which `now.replace(...) + *)
(* timedelta(days=1)` goes through: date -> ordinal, + 1, ordinal -> date. *)
(***************************************************************************)
is_leap(year) == year % 4 = 0 /\ (year % 100 # 0 \/ year % 400 = 0)

days_in_month(year, month) ==
    IF month = 2 THEN (IF is_leap(year) THEN 29 ELSE 28)
    ELSE IF month \in {4, 6, 9, 11} THEN 30 ELSE 31

\* _DAYS_BEFORE_MONTH[month] (+ 1 after February of a leap year)
days_before_month(year, month) ==
    LET dbm == <<0, 31, 59, 90, 120, 151, 181, 212, 243, 273, 304, 334>>
    IN dbm[month] + (IF month > 2 /\ is_leap(year) THEN 1 ELSE 0)

days_before_year(year) ==
    LET y == year - 1
    IN y * 365 + (y \div 4) - (y \div 100) + (y \div 400)

\* date.toordinal(): _ymd2ord
ymd2ord(year, month, day) ==
    days_before_year(year) + days_before_month(year, month) + day

\* date.fromordinal(): _ord2ymd
ord2ymd(ordinal) ==
    LET n0 == ordinal - 1
        n400 == n0 \div 146097
        r400 == n0 % 146097
        n100 == r400 \div 36524
        r100 == r400 % 36524
        n4 == r100 \div 1461
        r4 == r100 % 1461
        n1 == r4 \div 365
        n == r4 % 365
        year == n400 * 400 + 1 + n100 * 100 + n4 * 4 + n1
        leapyear == n1 = 3 /\ (n4 # 24 \/ n100 = 3)
        month0 == (n + 50) \div 32
        dbm == <<0, 31, 59, 90, 120, 151, 181, 212, 243, 273, 304, 334, 365>>
        preceding0 == dbm[month0] + (IF month0 > 2 /\ leapyear THEN 1 ELSE 0)
        month == IF preceding0 > n THEN month0 - 1 ELSE month0
        dim == <<31, 28, 31, 30, 31, 30, 31, 31, 30, 31, 30, 31>>
        preceding == IF preceding0 > n
                     THEN preceding0 - (dim[month] + (IF month = 2 /\ leapyear THEN 1 ELSE 0))
                     ELSE preceding0
    IN IF n1 = 4 \/ n100 = 4
       THEN [year |-> year - 1, month |-> 12, day |-> 31]
       ELSE [year |-> year, month |-> month, day |-> n - preceding + 1]

\* now.replace(hour=0, minute=0, second=0, microsecond=0) + timedelta(days=1)
midnight_plus_one_day(now) ==
    LET d == ord2ymd(ymd2ord(now.year, now.month, now.day) + 1)
    IN [year |-> d.year, month |-> d.month, day |-> d.day,
        hour |-> 0, minute |-> 0, second |-> 0, microsecond |-> 0]

\* Timescale.utc(year, month, day, hour, minute, second): an instant of the UTC
\* time line, kept as <<day number, second of the day>> (a count of seconds
\* since day 0 does not fit TLC's integers).
timescale_utc(year, month, day, hour, minute, second) ==
    <<ymd2ord(year, month, day), hour * 3600 + minute * 60 + second>>

\* The order of two instants.
time_lt(a, b) == a[1] < b[1] \/ (a[1] = b[1] /\ a[2] < b[2])
time_le(a, b) == a = b \/ time_lt(a, b)

\* define_time_range without the step to the next day
define_time_range_same_day(now) ==
    <<timescale_utc(now.year, now.month, now.day, now.hour, now.minute, now.second),
      timescale_utc(now.year, now.month, now.day, 23, 59, 59)>>

define_time_range(now) ==
    LET tomorrow == midnight_plus_one_day(now)
        current_time == timescale_utc(now.year, now.month, now.day,
                                      now.hour, now.minute, now.second)
        next_day_time == timescale_utc(tomorrow.year, tomorrow.month, tomorrow.day,
                                       23, 59, 59)
    IN <<current_time, next_day_time>>

(***************************************************************************)
(* The datetimes `now` is drawn from: every day of a century year that is  *)
(* no leap year, of one that is, and of 2023 .. 2023 + MaxYearSpan,        *)
(* at the ends of the ranges of the time fields.                           *)
(***************************************************************************)
Years == {1900, 2000} \cup (2023 .. (2023 + MaxYearSpan))

DateTimes ==
    {[year |-> y, month |-> m, day |-> d, hour |-> h, minute |-> mi,
      second |-> s, microsecond |-> us] :
        y \in Years, m \in 1..12, d \in 1..31, h \in {0, 23}, mi \in {0, 59},
        s \in {0, 59}, us \in {0, 999999}}

ValidDateTimes == {dt \in DateTimes : dt.day <= days_in_month(dt.year, dt.month)}

NoDateTime == [year |-> 0, month |-> 0, day |-> 0, hour |-> 0, minute |-> 0,
               second |-> 0, microsecond |-> 0]

(***************************************************************************)
(* get_pass_details                                                        *)
(***************************************************************************)
\* const.py: the satellite's name in the element file
SATELLITE_NAME == "ISS (ZARYA)"

\* event_names, indexed by the event code (Python indexes from 0)
event_names == <<"rise above ALTIUDE_DEGREES", "culminate", "set below ALTIUDE_DEGREES">>

\* The observer's location and timezone (define_observer_information): the
\* location is a token the ephemeris is applied to, the timezone is its offset
\* from UTC in seconds (central European time).
observer_location == "wgs84.latlon(OBSERVER_LATITUDE, OBSERVER_LONGITUDE)"
observer_timezone == 60 * 60

\* An instant `seconds` later.
time_add(t, seconds) ==
    LET s == t[2] + seconds
    IN <<t[1] + (s \div 86400), s % 86400>>

\* ti.astimezone(observer_timezone): the wall clock of the observer
astimezone(ti, tz) == time_add(ti, tz)

\* local_time.strftime("%Y %b %d %H:%M:%S"), field by field
strftime(local_time) ==
    LET d == ord2ymd(local_time[1])
        b == <<"Jan", "Feb", "Mar", "Apr", "May", "Jun",
               "Jul", "Aug", "Sep", "Oct", "Nov", "Dec">>
        s == local_time[2]
    IN <<d.year, b[d.month], d.day, s \div 3600, (s % 3600) \div 60, s % 60>>

\* (skyfield_satellite_object - observer_location).at(ti).altaz(): the ephemeris
\* is not this repository's; its values are terms naming what they depend on.
altaz(satellite, location, ti) ==
    [alt |-> <<"alt", satellite, location, ti>>,
     az |-> <<"az", satellite, location, ti>>]

\* {} and d[key] = value of a dict
EmptyDict == [k \in {} |-> {}]
dict_set(d, key, value) ==
    [k \in (DOMAIN d) \cup {key} |-> IF k = key THEN value ELSE d[k]]

\* The position (from 1) that Python's index i names in a list of length n,
\* 0 when list[i] raises IndexError.
py_index(n, i) ==
    IF i >= 0 THEN (IF i < n THEN i + 1 ELSE 0)
    ELSE (IF -i <= n THEN n + i + 1 ELSE 0)

Returned(v) == [kind |-> "return", value |-> v, error |-> "none"]
Raised(e) == [kind |-> "raise", value |-> << >>, error |-> e]
NotCalled == [kind |-> "none", value |-> << >>, error |-> "none"]
\* An input that is an exception, beside inputs that are values like v
RaisedFor(e, v) == [kind |-> "raise", value |-> v, error |-> e]

\* The record stored for one event
event_record(ti, tz, location, satellite) ==
    LET aa == altaz(satellite, location, ti)
    IN [Datetime |-> strftime(astimezone(ti, tz)),
        Azimuth |-> aa.az,
        Altitude |-> aa.alt]

\* One turn of the for loop: the new <<pass_details, pass_count>>, or << >>
\* when pass_details[pass_count - 1] raises IndexError.
gpd_step_keep_first(pass_details, pass_count, ti, event, tz, location, satellite) ==
    LET count == IF event = 0 THEN pass_count + 1 ELSE pass_count
        details == IF event = 0 THEN Append(pass_details, EmptyDict) ELSE pass_details
        at == py_index(Len(details), count - 1)
        event_name == event_names[event + 1]
    IN IF at = 0 THEN << >>
       ELSE IF event_name \in DOMAIN details[at] THEN <<details, count>>
       ELSE <<[details EXCEPT ![at] = dict_set(@, event_name,
                   event_record(ti, tz, location, satellite))], count>>

gpd_step(pass_details, pass_count, ti, event, tz, location, satellite) ==
    LET count == IF event = 0 THEN pass_count + 1 ELSE pass_count
        details == IF event = 0 THEN Append(pass_details, EmptyDict) ELSE pass_details
        at == py_index(Len(details), count - 1)
        event_name == event_names[event + 1]
    IN IF at = 0 THEN << >>
       ELSE <<[details EXCEPT ![at] = dict_set(@, event_name,
                   event_record(ti, tz, location, satellite))], count>>

\* The for loop from its i-th turn on (the value of each turn is bound once,
\* as the loop's variables are).
RECURSIVE gpd_loop(_, _, _, _, _, _, _)
gpd_loop(zipped, i, pass_details, pass_count, tz, location, satellite) ==
    IF i > Len(zipped) THEN Returned(pass_details)
    ELSE CHOOSE out \in
            {IF nxt = << >> THEN Raised("IndexError")
             ELSE gpd_loop(zipped, i + 1, nxt[1], nxt[2], tz, location, satellite) :
                nxt \in {gpd_step(pass_details, pass_count, zipped[i][1], zipped[i][2],
                                  tz, location, satellite)}} : TRUE

\* get_pass_details(t, events, ...), on zip(t, events)
get_pass_details(zipped, tz, location, satellite) ==
    gpd_loop(zipped, 1, << >>, 0, tz, location, satellite)

(***************************************************************************)
(* Inputs of get_pass_details: lists of at most MaxEvents events of any    *)
(* codes, at strictly increasing instants among MaxInstants candidates.    *)
(***************************************************************************)
RECURSIVE SortedSeq(_)
SortedSeq(S) ==
    IF S = {} THEN << >>
    ELSE LET m == CHOOSE x \in S : \A y \in S : x <= y
         IN <<m>> \o SortedSeq(S \ {m})

\* The k-th candidate instant after `start`, 5 h 33 min 20 s apart.
Instant(start, k) == time_add(start, k * 20000)

EventLists(start, instants, maxlen) ==
    UNION {
        LET at == SortedSeq(S)
        IN {[i \in 1..Len(at) |-> <<Instant(start, at[i]), codes[i]>>] :
                codes \in [1..Len(at) -> 0..2]}
        : S \in {X \in SUBSET (1..instants) : Cardinality(X) <= maxlen}}

PassStart == timescale_utc(2023, 10, 25, 14, 30, 0)
PassSatellite == [name |-> SATELLITE_NAME, tle |-> "mock_data.txt"]

(***************************************************************************)
(* update                                                                  *)
(***************************************************************************)
DOMAIN_KEY == "iss"

IssData(people, location, passes) ==
    [kind |-> "IssData", number_of_people_in_space |-> people,
     current_location |-> location, iss_passes |-> passes]

\* coordinator.data before the first refresh
NoneData ==
    [kind |-> "None", number_of_people_in_space |-> 0,
     current_location |-> [latitude |-> "", longitude |-> ""],
     iss_passes |-> [Datetime |-> << >>, Azimuth |-> << >>, Altitude |-> << >>]]

\* update(iss, skyfield_satellite_object): `events` is what find_events returned
\* for the window of define_time_range(now), `people` and `location` are what
\* the two HTTP calls of pyiss did. The arguments of IssData(...) are evaluated
\* in the order written: the two HTTP calls, then pass_details[0]["culminate"].
update_publish_last_pass(satellite, events, people, location) ==
    LET pass_details == get_pass_details(events, observer_timezone,
                                         observer_location, satellite)
    IN IF pass_details.kind = "raise" THEN pass_details
       ELSE IF people.kind = "raise" THEN Raised(people.error)
       ELSE IF location.kind = "raise" THEN Raised(location.error)
       ELSE IF py_index(Len(pass_details.value), -1) = 0 THEN Raised("IndexError")
       ELSE IF "culminate" \notin DOMAIN pass_details.value[Len(pass_details.value)]
            THEN Raised("KeyError")
       ELSE Returned(IssData(people.value, location.value,
                             pass_details.value[Len(pass_details.value)]["culminate"]))

update(satellite, events, people, location) ==
    LET pass_details == get_pass_details(events, observer_timezone,
                                         observer_location, satellite)
    IN IF pass_details.kind = "raise" THEN pass_details
       ELSE IF people.kind = "raise" THEN Raised(people.error)
       ELSE IF location.kind = "raise" THEN Raised(location.error)
       ELSE IF py_index(Len(pass_details.value), 0) = 0 THEN Raised("IndexError")
       ELSE IF "culminate" \notin DOMAIN pass_details.value[1] THEN Raised("KeyError")
       ELSE Returned(IssData(people.value, location.value,
                             pass_details.value[1]["culminate"]))

\* The classes an exception is an instance of (requests.exceptions, builtins).
exception_classes(e) ==
    CASE e = "HTTPError" -> {"HTTPError", "RequestException", "OSError", "Exception"}
      [] e = "ConnectionError" ->
            {"ConnectionError", "RequestException", "OSError", "Exception"}
      [] e = "SSLError" ->
            {"SSLError", "ConnectionError", "RequestException", "OSError", "Exception"}
      [] e = "ReadTimeout" ->
            {"ReadTimeout", "Timeout", "RequestException", "OSError", "Exception"}
      [] e = "IndexError" -> {"IndexError", "LookupError", "Exception"}
      [] e = "KeyError" -> {"KeyError", "LookupError", "Exception"}
      [] OTHER -> {e, "Exception"}

\* async_update that catches HTTPError only
async_update_http_only(update_result) ==
    IF update_result.kind = "raise"
       /\ exception_classes(update_result.error) \cap {"HTTPError"} # {}
    THEN Raised("UpdateFailed")
    ELSE update_result

\* async_update(): what it does with what update() did
async_update(update_result) ==
    IF update_result.kind = "raise"
       /\ exception_classes(update_result.error) \cap {"HTTPError", "ConnectionError"} # {}
    THEN Raised("UpdateFailed")
    ELSE update_result

(***************************************************************************)
(* The inputs of update(): the clock, the event finder, the HTTP client.   *)
(***************************************************************************)
\* What find_events can return for a window: rise, culminate (once or more),
\* set, rise, ..., starting and ending anywhere in that cycle (the satellite
\* may be above the minimum elevation when the window starts or ends), the
\* i-th event at the i-th candidate instant, all within the window.
FinderLists(start, end) ==
    LET Follows == {<<0, 1>>, <<1, 1>>, <<1, 2>>, <<2, 0>>}
        Codes == {c \in UNION {[1..n -> 0..2] : n \in 0..MaxEvents} :
                    /\ \A i \in DOMAIN c : time_le(Instant(start, i), end)
                    /\ \A i \in DOMAIN c : i > 1 => <<c[i-1], c[i]>> \in Follows}
    IN {[i \in DOMAIN c |-> <<Instant(start, i), c[i]>>] : c \in Codes}

\* datetime.now() at the updates
UpdateNows ==
    {[year |-> 2023, month |-> 10, day |-> 25, hour |-> 14, minute |-> 30,
      second |-> 0, microsecond |-> 0]}

\* What number_of_people_in_space() and current_location() do: the second is
\* not called when the first raised.
Location == [latitude |-> "40.7", longitude |-> "-84.1"]
NoApiAnswer ==
    [people |-> RaisedFor("not called", 0), location |-> RaisedFor("not called", Location)]
ApiAnswers ==
    {[people |-> Returned(7), location |-> Returned(Location)],
     [people |-> Returned(7), location |-> RaisedFor("HTTPError", Location)]}
    \cup {[people |-> RaisedFor(e, 0), location |-> RaisedFor("not called", Location)] :
             e \in {"HTTPError", "ConnectionError", "SSLError", "ReadTimeout"}}

\* The HTTP answers update() reads for an event list: none when
\* get_pass_details raised, which comes first (which satellite the events are
\* of does not change whether it raises).
ApiAnswersRead(events) ==
    IF get_pass_details(events, observer_timezone, observer_location, "").kind = "raise"
    THEN {NoApiAnswer}
    ELSE ApiAnswers

\* load_satellites(): load.tle_file(STATIONS_URL) returns the satellites of the
\* element file, or the download fails.
Satellite(name, tle) == [name |-> name, tle |-> tle]
TleOutcomes ==
    {Returned({Satellite(SATELLITE_NAME, "tle-1"), Satellite("CSS (TIANHE)", "tle-1")}),
     Returned({Satellite("CSS (TIANHE)", "tle-1")}),
     RaisedFor("OSError", {})}

NoSatellite == Satellite("", "")

\* select_satellite(satellites, satellite_name): by_name[satellite_name]
select_satellite(satellites, satellite_name) ==
    IF \E sat \in satellites : sat.name = satellite_name
    THEN Returned(CHOOSE sat \in satellites : sat.name = satellite_name)
    ELSE RaisedFor("KeyError", NoSatellite)


(***************************************************************************)
(* sensor.py                                                               *)
(***************************************************************************)
ENTRY_ID == "entry_1"

\* IssSensor.__init__
IssSensor(coord, entry_id, key) ==
    [key |-> key, coordinator |-> coord,
     entity_id |-> "sensor.iss_" \o key,
     unique_id |-> entry_id \o "_" \o key]

\* sensor.async_setup_entry: the entities handed to async_add_entities
sensor_async_setup_entry(hd, entry_id) ==
    LET coord == hd[DOMAIN_KEY]
    IN <<IssSensor(coord, entry_id, "people"),
         IssSensor(coord, entry_id, "pass_time"),
         IssSensor(coord, entry_id, "pass_azimuth"),
         IssSensor(coord, entry_id, "pass_altitude")>>

\* native_value with the azimuth and altitude branches exchanged
native_value_swapped(key, data) ==
    IF key = "people" THEN data.number_of_people_in_space
    ELSE IF key = "pass_azimuth" THEN data.iss_passes.Altitude
    ELSE IF key = "pass_altitude" THEN data.iss_passes.Azimuth
    ELSE data.iss_passes.Datetime

\* IssSensor.native_value, of the entity with this key, on coordinator.data
native_value(key, data) ==
    IF key = "people" THEN data.number_of_people_in_space
    ELSE IF key = "pass_azimuth" THEN data.iss_passes.Azimuth
    ELSE IF key = "pass_altitude" THEN data.iss_passes.Altitude
    ELSE data.iss_passes.Datetime

(***************************************************************************)
(* The config entry: hass.data, the coordinator, the entities.             *)
(***************************************************************************)
NoHassData == [k \in {} |-> ""]
hass_setdefault(hd, key, value) == IF key \in DOMAIN hd THEN hd ELSE dict_set(hd, key, value)
hass_del(hd, key) == [k \in (DOMAIN hd) \ {key} |-> hd[k]]

NoDataIn == [now |-> NoDateTime, events |-> << >>]
NoCoordinator == [satellite |-> NoSatellite, data |-> NoneData, last_update_success |-> FALSE]

\* DataUpdateCoordinator refreshing: it keeps its data when update_method raises.
coordinator_refresh(coord, result) ==
    IF result.kind = "return"
    THEN [coord EXCEPT !.data = result.value, !.last_update_success = TRUE]
    ELSE [coord EXCEPT !.last_update_success = FALSE]

\* hass.data after the lines from the first refresh on: ConfigEntryNotReady,
\* raised by async_config_entry_first_refresh, skips the assignment
setup_store(hd, refreshed) ==
    IF refreshed THEN dict_set(hd, DOMAIN_KEY, "coordinator") ELSE hd

\* async_setup_entry run on hass.data = hd
SetupFrom(hd, tle, now, events, api) ==
    LET hd1 == hass_setdefault(hd, DOMAIN_KEY, "{}")
        selected == IF tle.kind = "raise" THEN Raised(tle.error)
                    ELSE select_satellite(tle.value, SATELLITE_NAME)
    IN IF selected.kind = "raise"
       THEN /\ hass_data' = hd1
            /\ entry_state' = "setup_error"
            /\ setup_out' = Raised(selected.error)
            /\ entities' = << >>
            /\ UNCHANGED <<coordinator, data_in, update_out, async_out>>
       ELSE \E upd \in {update(selected.value, events, api.people, api.location)} :
            \E res \in {async_update(upd)} :
            \E coord \in {coordinator_refresh(
                            [NoCoordinator EXCEPT !.satellite = selected.value], res)} :
            \E hd2 \in {setup_store(hd1, coord.last_update_success)} :
               /\ data_in' = IF res.kind = "return"
                           THEN [now |-> now, events |-> events]
                           ELSE NoDataIn
               /\ update_out' = upd
               /\ async_out' = res
               /\ coordinator' = coord
               /\ hass_data' = hd2
               /\ IF coord.last_update_success
                  THEN /\ entities' = sensor_async_setup_entry(hd2, ENTRY_ID)
                       /\ entry_state' = "loaded"
                       /\ setup_out' = Returned(TRUE)
                  ELSE /\ entities' = << >>
                       /\ entry_state' = "setup_retry"
                       /\ setup_out' = Raised("ConfigEntryNotReady")

\* async_setup_entry on hass.data = hd with every input it may read: the
\* element file and, when the satellite was found in it, the clock, the events
\* found in the window of that clock and the HTTP answers of the first refresh.
SetupWithInputs(hd) ==
    \E tle \in TleOutcomes :
        IF tle.kind = "raise" \/ select_satellite(tle.value, SATELLITE_NAME).kind = "raise"
        THEN SetupFrom(hd, tle, NoDateTime, << >>, NoApiAnswer)
        ELSE \E now \in UpdateNows : \E window \in {define_time_range(now)} :
               \E events \in FinderLists(window[1], window[2]) :
                 \E api \in ApiAnswersRead(events) : SetupFrom(hd, tle, now, events, api)

\* The host sets up the entry (the first time, after an unload, or again after
\* a setup that failed).
AsyncSetupEntry ==
    /\ entry_state \in {"not_loaded", "setup_retry", "setup_error"}
    /\ SetupWithInputs(hass_data)
    /\ last_op' = [op |-> "setup", hass_before |-> hass_data, unload_ok |-> FALSE]
    /\ UNCHANGED <<unload_out, time_vars, pass_vars, pos_vars>>

\* The coordinator's refresh every update_interval: async_update.
Refresh ==
    /\ entry_state = "loaded"
    /\ \E now \in UpdateNows : \E window \in {define_time_range(now)} :
         \E events \in FinderLists(window[1], window[2]) :
           \E api \in ApiAnswersRead(events) :
            \E upd \in {update(coordinator.satellite, events, api.people, api.location)} :
            \E res \in {async_update(upd)} :
               /\ data_in' = IF res.kind = "return"
                           THEN [now |-> now, events |-> events]
                           ELSE data_in
               /\ update_out' = upd
               /\ async_out' = res
               /\ coordinator' = coordinator_refresh(coordinator, res)
    /\ last_op' = [op |-> "refresh", hass_before |-> hass_data, unload_ok |-> FALSE]
    /\ UNCHANGED <<hass_data, entry_state, entities, setup_out, unload_out,
                   time_vars, pass_vars, pos_vars>>

\* async_unload_entry that deletes hass.data[DOMAIN] whatever the platforms did
unload_entry_always_del(hd, unload_ok) ==
    [hass_data |-> hass_del(hd, DOMAIN_KEY), result |-> Returned(unload_ok)]

\* async_unload_entry on hass.data = hd, unload_ok being what
\* async_unload_platforms returned: the new hass.data and the value returned
unload_entry(hd, unload_ok) ==
    IF unload_ok
    THEN (IF DOMAIN_KEY \in DOMAIN hd
          THEN [hass_data |-> hass_del(hd, DOMAIN_KEY), result |-> Returned(TRUE)]
          ELSE [hass_data |-> hd, result |-> Raised("KeyError")])
    ELSE [hass_data |-> hd, result |-> Returned(FALSE)]

\* The host unloads the loaded entry.
AsyncUnloadEntry ==
    /\ entry_state = "loaded"
    /\ \E unload_ok \in BOOLEAN :
         LET u == unload_entry(hass_data, unload_ok)
         IN /\ hass_data' = u.hass_data
            /\ unload_out' = u.result
            /\ entry_state' = IF unload_ok THEN "not_loaded" ELSE "failed_unload"
            /\ entities' = IF unload_ok THEN << >> ELSE entities
            /\ last_op' = [op |-> "unload", hass_before |-> hass_data,
                           unload_ok |-> unload_ok]
    /\ UNCHANGED <<coordinator, data_in, update_out, async_out, setup_out,
                   time_vars, pass_vars, pos_vars>>

\* update_listener: async_reload unloads the entry and, if that worked, sets
\* it up again.
UpdateListener ==
    /\ entry_state = "loaded"
    /\ \E unload_ok \in BOOLEAN :
         LET u == unload_entry(hass_data, unload_ok)
         IN /\ unload_out' = u.result
            /\ IF unload_ok
               THEN SetupWithInputs(u.hass_data)
               ELSE /\ hass_data' = u.hass_data
                    /\ entry_state' = "failed_unload"
                    /\ UNCHANGED <<coordinator, entities, data_in, update_out,
                                   async_out, setup_out>>
            /\ last_op' = [op |-> "reload", hass_before |-> hass_data,
                           unload_ok |-> unload_ok]
    /\ UNCHANGED <<time_vars, pass_vars, pos_vars>>

(***************************************************************************)
(* The states before anything ran, part by part.                           *)
(***************************************************************************)
TimeIdle == dtr_now = NoDateTime /\ dtr_out = NotCalled
PassIdle == gpd_in = << >> /\ gpd_out = NotCalled
EntryIdle ==
    /\ hass_data = NoHassData
    /\ entry_state = "not_loaded"
    /\ coordinator = NoCoordinator
    /\ entities = << >>
    /\ data_in = NoDataIn
    /\ update_out = NotCalled
    /\ async_out = NotCalled
    /\ setup_out = NotCalled
    /\ unload_out = NotCalled
    /\ last_op = [op |-> "none", hass_before |-> NoHassData, unload_ok |-> FALSE]
PosIdle == remote_tle = "tle-1" /\ tle_file = "absent" /\ pos_calls = {}

(***************************************************************************)
(* iss_tracking.py                                                         *)
(***************************************************************************)
TleVersions == {"tle-1", "tle-2"}

\* list(satellite.at(time).position.km): three coordinates, terms of the
\* ephemeris
position_km(satellite, time) ==
    <<<<"x", satellite, time>>, <<"y", satellite, time>>, <<"z", satellite, time>>>>

\* iss_tracking.load_satellites(satellite_name): load.tle_file(STATIONS_URL)
\* reads the file on disk and downloads it first when it is not there.
\* The file after the call, and the satellite or the error.
tracking_load_satellites(file, served, network_up, satellite_name) ==
    IF file = "absent" /\ ~network_up
    THEN [file |-> file, result |-> RaisedFor("OSError", NoSatellite)]
    ELSE LET f == IF file = "absent" THEN served ELSE file
         IN [file |-> f, result |-> Returned(Satellite(satellite_name, f))]

\* get_iss_position(year, month, day, hour, minute, second) called with
\* `nargs` positional arguments: the function has six parameters.
get_iss_position(nargs, time_args, file, served, network_up) ==
    IF nargs # 6 THEN [file |-> file, result |-> Raised("TypeError")]
    ELSE LET loaded == tracking_load_satellites(file, served, network_up, SATELLITE_NAME)
             time == timescale_utc(time_args[1], time_args[2], time_args[3],
                                   time_args[4], time_args[5], time_args[6])
         IN IF loaded.result.kind = "raise"
            THEN [file |-> loaded.file, result |-> Raised(loaded.result.error)]
            ELSE [file |-> loaded.file,
                  result |-> Returned(position_km(loaded.result.value, time))]

PositionTimes == {<<2023, 10, 23, 23, 59, 0>>, <<2023, 10, 19, 12, 0, 0>>}
SuppliedSatellites == {Satellite(SATELLITE_NAME, v) : v \in TleVersions \cup {"mock_data.txt"}}

\* A caller asks for the position, with the six date and time arguments or,
\* as the test does, with a satellite object as a seventh.
CallGetIssPosition ==
    /\ Cardinality(pos_calls) < MaxCalls
    /\ \E time_args \in PositionTimes, supplied \in SuppliedSatellites \cup {NoSatellite},
          network_up \in BOOLEAN :
         LET nargs == IF supplied = NoSatellite THEN 6 ELSE 7
             r == get_iss_position(nargs, time_args, tle_file, remote_tle, network_up)
         IN /\ tle_file' = r.file
            /\ pos_calls' = pos_calls \cup
                  {[time_args |-> time_args, supplied |-> supplied, out |-> r.result]}
    /\ UNCHANGED <<remote_tle, time_vars, pass_vars, entry_vars>>

\* The source of the element sets publishes new elements.
RemotePublishes ==
    /\ \E v \in TleVersions \ {remote_tle} : remote_tle' = v
    /\ UNCHANGED <<tle_file, pos_calls, time_vars, pass_vars, entry_vars>>

(***************************************************************************)
(* SpecTime: define_time_range applied to every `now` of ValidDateTimes.   *)
(***************************************************************************)
DefineTimeRange ==
    /\ dtr_out.kind = "none"
    /\ dtr_out' = Returned(define_time_range(dtr_now))
    /\ UNCHANGED <<dtr_now, pass_vars, entry_vars, pos_vars>>

(***************************************************************************)
(* SpecPass: get_pass_details applied to every list of EventLists.         *)
(***************************************************************************)
GetPassDetails ==
    /\ gpd_out.kind = "none"
    /\ gpd_out' = get_pass_details(gpd_in, observer_timezone, observer_location,
                                   PassSatellite)
    /\ UNCHANGED <<gpd_in, time_vars, entry_vars, pos_vars>>

InitTime ==
    /\ dtr_now \in ValidDateTimes
    /\ dtr_out = NotCalled
    /\ PassIdle /\ EntryIdle /\ PosIdle
NextTime == DefineTimeRange
SpecTime == InitTime /\ [][NextTime]_vars

InitPass ==
    /\ gpd_in \in EventLists(PassStart, MaxInstants, MaxEvents)
    /\ gpd_out = NotCalled
    /\ TimeIdle /\ EntryIdle /\ PosIdle
NextPass == GetPassDetails
SpecPass == InitPass /\ [][NextPass]_vars

InitPos ==
    /\ remote_tle \in TleVersions
    /\ tle_file \in TleVersions \cup {"absent"}
    /\ pos_calls = {}
    /\ TimeIdle /\ PassIdle /\ EntryIdle
NextPos == CallGetIssPosition \/ RemotePublishes
SpecPos == InitPos /\ [][NextPos]_vars

(***************************************************************************)
(* Spec: the config entry, from before its first setup.                    *)
(***************************************************************************)
Init == TimeIdle /\ PassIdle /\ EntryIdle /\ PosIdle
Next == AsyncSetupEntry \/ Refresh \/ AsyncUnloadEntry \/ UpdateListener
Spec == Init /\ [][Next]_vars

(***************************************************************************)
(* Properties.                                                             *)
(***************************************************************************)
\* The culminations of the first pass of an event list: those before the
\* second rise.
FirstPassCulminations(events) ==
    {j \in DOMAIN events : events[j][2] = 1 /\ \A k \in 2..j : events[k][2] # 0}

\* C1 as stated: after every successful update() the published pass holds all
\* three events of the earliest pass (its rise, its culmination and its set).
C1_PublishesAllThreeEvents ==
    update_out.kind = "return" =>
        \A c \in 1..3 : event_names[c] \in DOMAIN coordinator.data.iss_passes

\* C1, amended: after every successful update() the published IssData is what
\* update() returned, and its pass is one event only: the culmination of the
\* first pass of the window (the last one before the second rise), with the
\* local time, the azimuth and the altitude at that event; an update whose
\* event list does not start with a rise followed by a culmination fails.
C1_PublishesFirstCulmination ==
    update_out.kind = "return" =>
        /\ coordinator.data = update_out.value
        /\ coordinator.data.kind = "IssData"
        /\ DOMAIN coordinator.data.iss_passes = {"Datetime", "Azimuth", "Altitude"}
        /\ data_in.events # << >>
        /\ data_in.events[1][2] = 0
        /\ FirstPassCulminations(data_in.events) # {}
        /\ LET cs == FirstPassCulminations(data_in.events)
               last == CHOOSE j \in cs : \A k \in cs : k <= j
               ti == data_in.events[last][1]
           IN /\ coordinator.data.iss_passes.Datetime = strftime(astimezone(ti, observer_timezone))
              /\ coordinator.data.iss_passes.Azimuth =
                    <<"az", coordinator.satellite, observer_location, ti>>
              /\ coordinator.data.iss_passes.Altitude =
                    <<"alt", coordinator.satellite, observer_location, ti>>

\* A successful update whose window holds a whole first pass with two
\* culminations and the rise of a second pass.
C1_Witness ==
    /\ update_out.kind = "return"
    /\ coordinator.data = update_out.value
    /\ Len(data_in.events) = 5
    /\ \A i \in 1..5 : data_in.events[i][2] = <<0, 1, 1, 2, 0>>[i]

\* C2: for every event list whose first event is a rise, get_pass_details
\* returns one entry per rise, in input order, and the entry of a rise holds,
\* for each event kind, the record of the last event of that kind between this
\* rise and the next one, and no record for a kind that does not occur there.
C2_OneEntryPerRise ==
    (gpd_out.kind # "none" /\ gpd_in # << >> /\ gpd_in[1][2] = 0) =>
        /\ gpd_out.kind = "return"
        /\ LET rises == SortedSeq({i \in DOMAIN gpd_in : gpd_in[i][2] = 0})
               out == gpd_out.value
           IN /\ Len(out) = Len(rises)
              /\ \A p \in 1..Len(rises) :
                    LET lo == rises[p]
                        hi == IF p < Len(rises) THEN rises[p + 1] - 1 ELSE Len(gpd_in)
                    IN \A c \in 0..2 :
                         LET js == {j \in lo..hi : gpd_in[j][2] = c}
                             name == event_names[c + 1]
                         IN IF js = {} THEN name \notin DOMAIN out[p]
                            ELSE /\ name \in DOMAIN out[p]
                                 /\ out[p][name] =
                                      event_record(
                                        gpd_in[CHOOSE j \in js : \A k \in js : k <= j][1],
                                        observer_timezone, observer_location, PassSatellite)

\* Two passes, the first with two culminations and two sets.
C2_Witness ==
    /\ gpd_out.kind = "return"
    /\ Len(gpd_in) = 5
    /\ \A i \in 1..5 : gpd_in[i][2] = <<0, 1, 1, 2, 0>>[i]
    /\ Len(gpd_out.value) = 2

\* The calendar day after year-month-day, by cases.
next_calendar_day(year, month, day) ==
    IF day < days_in_month(year, month) THEN <<year, month, day + 1>>
    ELSE IF month < 12 THEN <<year, month + 1, 1>>
    ELSE <<year + 1, 1, 1>>

C4_DeterministicInItsArguments ==
    /\ \A c \in pos_calls :
          c.supplied # NoSatellite =>
             /\ c.out.kind = "return"
             /\ c.out.value = position_km(c.supplied,
                                timescale_utc(c.time_args[1], c.time_args[2], c.time_args[3],
                                              c.time_args[4], c.time_args[5], c.time_args[6]))
    /\ \A c, d \in pos_calls :
          (c.time_args = d.time_args /\ c.supplied = d.supplied) =>
             (c.out.kind = d.out.kind /\ c.out.error = d.out.error
              /\ (c.out.kind = "return" => c.out.value = d.out.value))

\* C5: async_update raises UpdateFailed when update() raised an HTTPError or a
\* ConnectionError (or a subclass of one), and only then: it returns what
\* update() returned and lets any other exception through.
C5_UpdateFailedIffHttpOrConnection ==
    async_out.kind # "none" =>
        LET caught == /\ update_out.kind = "raise"
                      /\ update_out.error \in {"HTTPError", "ConnectionError", "SSLError"}
        IN /\ caught => (async_out.kind = "raise" /\ async_out.error = "UpdateFailed")
           /\ ~caught =>
                /\ async_out.kind = update_out.kind
                /\ async_out.error = update_out.error
                /\ async_out.error # "UpdateFailed"
                /\ update_out.kind = "return" => async_out.value = update_out.value

\* update() raised a ConnectionError and async_update reported UpdateFailed.
C5_Witness ==
    /\ update_out.kind = "raise" /\ update_out.error = "ConnectionError"
    /\ async_out.kind = "raise" /\ async_out.error = "UpdateFailed"

\* C6: async_unload_entry returns what unloading the platforms answered, has
\* removed hass.data[DOMAIN] exactly when that is True, and has left hass.data
\* as it was when it is False (also when update_listener's reload runs it);
\* and hass.data[DOMAIN] holds the coordinator only when the coordinator's
\* first refresh succeeded.
C6_UnloadAndStore ==
    /\ last_op.op = "unload" =>
          /\ unload_out.kind = "return"
          /\ unload_out.value = last_op.unload_ok
          /\ (DOMAIN_KEY \notin DOMAIN hass_data) <=> last_op.unload_ok
          /\ ~last_op.unload_ok => hass_data = last_op.hass_before
    /\ (last_op.op = "reload" /\ ~last_op.unload_ok) =>
          (unload_out.kind = "return" /\ ~unload_out.value
           /\ hass_data = last_op.hass_before)
    /\ (DOMAIN_KEY \in DOMAIN hass_data /\ hass_data[DOMAIN_KEY] = "coordinator") =>
          (coordinator.data.kind = "IssData" /\ setup_out.kind = "return")

\* An unload whose platforms did not unload, after a setup that stored the
\* coordinator.
C6_Witness ==
    /\ last_op.op = "unload"
    /\ ~last_op.unload_ok
    /\ unload_out.kind = "return"
    /\ DOMAIN_KEY \in DOMAIN hass_data
    /\ hass_data[DOMAIN_KEY] = "coordinator"

\* C7: the platform adds four sensors, keyed people, pass_time, pass_azimuth
\* and pass_altitude, on the coordinator of hass.data; each reports the field
\* of its key from the coordinator's current data, and their entity ids and
\* their unique ids are pairwise distinct.
C7_SensorsReportTheirFields ==
    entry_state = "loaded" =>
        /\ Len(entities) = 4
        /\ {entities[i].key : i \in 1..Len(entities)} =
              {"people", "pass_time", "pass_azimuth", "pass_altitude"}
        /\ coordinator.data.kind = "IssData"
        /\ \A i \in 1..Len(entities) :
              LET e == entities[i]
                  d == coordinator.data
              IN /\ e.coordinator = "coordinator"
                 /\ e.key = "people" => native_value(e.key, d) = d.number_of_people_in_space
                 /\ e.key = "pass_azimuth" =>
                       (native_value(e.key, d) = d.iss_passes.Azimuth
                        /\ native_value(e.key, d)[1] = "az")
                 /\ e.key = "pass_altitude" =>
                       (native_value(e.key, d) = d.iss_passes.Altitude
                        /\ native_value(e.key, d)[1] = "alt")
                 /\ e.key = "pass_time" => native_value(e.key, d) = d.iss_passes.Datetime
        /\ \A i, j \in 1..Len(entities) :
              i # j => (/\ entities[i].entity_id # entities[j].entity_id
                        /\ entities[i].unique_id # entities[j].unique_id)

\* The entry is loaded and a later refresh replaced the data the sensors read.
C7_Witness ==
    /\ entry_state = "loaded"
    /\ last_op.op = "refresh"
    /\ update_out.kind = "return"
    /\ Len(entities) = 4

\* C8 as stated: get_pass_details completes without error for every event
\* list, also one whose first event is a culmination or a set.
C8_CompletesForEveryList ==
    gpd_out.kind # "none" => gpd_out.kind = "return"

====
